---- MODULE Spec2Model ----
(***************************************************************************)
(* The event nexus of event_framework.core: Datum, ActualOccasion,         *)
(* Prehension and Nexus.  The caller builds occasions, binds (selector,    *)
(* form) pairs, registers occasions and middlewares, and calls emit, which *)
(* runs the propagation loop one queue element per step.                   *)
(***************************************************************************)
EXTENDS Integers, Sequences, FiniteSets, TLC

VARIABLES
    occ,          \* the ActualOccasion objects: object -> [name, state, _bindings]
    occasions,    \* Nexus._occasions: a dict, kept as <<name, object>> in insertion order
    middlewares,  \* Nexus._middlewares
    pc,           \* "idle", "loop" (inside emit's while), "done" (emit has returned seen),
                  \* "raised" (emit was left by an exception)
    data,         \* emit's argument list
    queue,        \* emit's local queue
    seen,         \* emit's local seen; the returned list once pc = "done"
    emits,        \* number of emit calls made so far
    fresh,        \* next value of the run's uuid4 / datetime.now source
    snap,         \* the mapping returned by the last snapshot() call, as name -> object
    qlog,         \* history, parallel to queue: where each queued datum came from
    slog,         \* history, parallel to seen: the same, plus what processing it did
    invoked       \* history: object -> invocations of a counting form so far, over all emits

vars ==
    <<occ, occasions, middlewares, pc, data, queue, seen, emits, fresh, snap, qlog, slog, invoked>>

(***************************************************************************)
(* Bounds of the exploration.                                              *)
(***************************************************************************)
MaxBindings == 2      \* (selector, form) pairs bound in total
MaxMiddlewares == 2   \* middlewares installed
MaxEmits == 2         \* emit calls
MaxDepth == 2         \* causation hops after which a datum is no longer processed

\* The element of a one-element set. Only({ F(x) : x \in {e} }) is F(e) with e
\* evaluated once, however often F uses it.
Only(S) == CHOOSE y \in S : TRUE

(***************************************************************************)
(* Datum                                                                   *)
(***************************************************************************)
None == <<>>
Some(s) == <<s>>

\* Python truthiness of a str | None value: None and "" are falsy.
Truthy(opt) == opt # None /\ opt[1] # ""

\* Python's `a or b` for a : str | None and b : str; the result is a str.
Or(opt, s) == IF Truthy(opt) THEN opt[1] ELSE s

\* str(uuid4()): unique per call; run and n identify the call.
Uuid(run, n) == "u" \o ToString(run) \o "-" \o ToString(n)

\* datetime.now(timezone.utc) at the n-th construction of run `run`.
Now(run, n) == [run |-> run, tick |-> n]

Datum(name, payload, id, created_at, correlation_id, causation_id) ==
    [name |-> name, payload |-> payload, id |-> id, created_at |-> created_at,
     correlation_id |-> correlation_id, causation_id |-> causation_id]

\* Datum(name=..., payload=...) with the default id, created_at and ids.
NewDatum(name, payload, run, n) ==
    Datum(name, payload, Uuid(run, n), Now(run, n), None, None)

\* {**payload, key: value}
DictWith(payload, key, value) == (key :> value) @@ payload

(***************************************************************************)
(* The caller's selectors, forms and middlewares.                          *)
(***************************************************************************)
Selectors == {"is_input", "not_final", "always", "picky", "is_root"}

\* picky raises on an "intermediate" datum and rejects every other one.
SelectorRaises(sel, d) == sel = "picky" /\ d.name = "intermediate"

Selector(sel, d) ==
    CASE sel = "is_input" -> d.name = "input"
      [] sel = "not_final" -> d.name # "final"
      [] sel = "always" -> TRUE
      [] sel = "picky" -> FALSE
      [] sel = "is_root" -> d.causation_id = None

Forms == {"derive", "pair", "echo", "fail", "relay", "twice"}

NextName(name) == IF name = "input" THEN "intermediate" ELSE "final"

\* A subjective form: (occasion state, datum) -> new state and the data it yields.
\*   derive: counts, and yields one datum of the next name carrying the count
\*   pair:   counts, and yields two data, the first with ids of its own making
\*   echo:   yields one datum of the same name and payload
\*   fail:   raises
\*   relay:  yields the datum it was given
\*   twice:  builds one datum of the next name and yields it two times
\* raised tells whether the form raised instead of returning.
Form(form, state, d, run, n) ==
    CASE form = "derive" ->
           LET c == state["count"] + 1
           IN  [state |-> DictWith(state, "count", c),
                out |-> <<NewDatum(NextName(d.name), DictWith(<<>>, "n", c), run, n)>>,
                fresh |-> n + 1, raised |-> FALSE]
      [] form = "pair" ->
           LET c == state["count"] + 1
           IN  [state |-> DictWith(state, "count", c),
                out |-> <<Datum("final", DictWith(<<>>, "k", 1), Uuid(run, n), Now(run, n),
                                Some("forged"), Some("forged")),
                          NewDatum("final", DictWith(<<>>, "k", 2), run, n + 1)>>,
                fresh |-> n + 2, raised |-> FALSE]
      [] form = "echo" ->
           [state |-> state,
            out |-> <<NewDatum(d.name, d.payload, run, n)>>,
            fresh |-> n + 1, raised |-> FALSE]
      [] form = "fail" ->
           [state |-> state, out |-> <<>>, fresh |-> n, raised |-> TRUE]
      [] form = "relay" ->
           [state |-> state, out |-> <<d>>, fresh |-> n, raised |-> FALSE]
      [] form = "twice" ->
           [state |-> state,
            out |-> <<NewDatum(NextName(d.name), <<>>, run, n),
                      NewDatum(NextName(d.name), <<>>, run, n)>>,
            fresh |-> n + 1, raised |-> FALSE]

\* The (selector, form) pairs the caller binds.
Bindings ==
    { <<"not_final", "derive">>, <<"is_input", "pair">>, <<"always", "echo">> }

Middlewares == {"stamp", "reroute", "tally"}

\* payload.get(key, 0)
DictGet(payload, key) == IF key \in DOMAIN payload THEN payload[key] ELSE 0

\* A middleware: Datum -> Datum, built as the tests build theirs (a new Datum
\* with every other field copied).
\*   stamp:   payload["by"] = "stamp"
\*   reroute: payload["by"] = "reroute" and correlation_id = "mw"
\*   tally:   payload["tally"] = payload.get("tally", 0) + 1
Middleware(mw, d) ==
    CASE mw = "stamp" -> [d EXCEPT !.payload = DictWith(d.payload, "by", "stamp")]
      [] mw = "reroute" -> [d EXCEPT !.payload = DictWith(d.payload, "by", "reroute"),
                                     !.correlation_id = Some("mw")]
      [] mw = "tally" ->
           [d EXCEPT !.payload = DictWith(d.payload, "tally", DictGet(d.payload, "tally") + 1)]

PreservesIds(mw) == mw \in {"stamp", "tally"}

(***************************************************************************)
(* The caller's objects and initial data.                                  *)
(***************************************************************************)
Objects == {"O1", "O2", "O3"}

\* O1 and O3 carry the same name.
NameOf(o) == IF o = "O2" THEN "B" ELSE "A"

CallerTime == [run |-> 0, tick |-> 0]

\* Datum(name=..., payload={}, id=..., correlation_id=...) built by the caller.
Input(name, id, correlation_id) == Datum(name, <<>>, id, CallerTime, correlation_id, None)

\* The argument lists of emit.
InputData ==
    { <<Input("input", "a", c)>> : c \in {None, Some(""), Some("c")} }
    \cup { <<Input("input", "a", None), Input("input", "b", Some("c"))>>,
           <<Input("final", "a", None)>> }

(***************************************************************************)
(* ActualOccasion                                                          *)
(***************************************************************************)
Occasion(name, state, bindings) == [name |-> name, state |-> state, _bindings |-> bindings]

\* ActualOccasion.on: append (selector, form) to the binding list.
OccasionOn(self, selector, form) ==
    [self EXCEPT !._bindings = Append(@, <<selector, form>>)]

\* YieldFrom with the later bindings' data put first.
YieldFromLaterFirst(i, r, rest) ==
    [state |-> rest.state,
     out |-> rest.out \o r.out,
     src |-> rest.src \o [k \in 1..Len(r.out) |-> [binding |-> i, k |-> k]],
     calls |-> <<i>> \o rest.calls,
     fresh |-> rest.fresh,
     raised |-> rest.raised]

\* What handle has yielded once the form of binding i has returned r and the
\* bindings after i have yielded rest.
YieldFrom(i, r, rest) ==
    [state |-> rest.state,
     out |-> r.out \o rest.out,
     src |-> [k \in 1..Len(r.out) |-> [binding |-> i, k |-> k]] \o rest.src,
     calls |-> <<i>> \o rest.calls,
     fresh |-> rest.fresh,
     raised |-> rest.raised]

\* The loop of ActualOccasion.handle from binding i on. state is self.state as
\* the forms run so far have left it; n is the next fresh value. Returns the
\* state, the data yielded in order (out), for each of them the binding and
\* the position in that binding's output it came from (src), and the bindings
\* whose form was invoked (calls), and whether a selector or a form raised,
\* which ends the loop.
RECURSIVE HandleFrom(_, _, _, _, _)
RECURSIVE HandleAfter(_, _, _, _)
\* What handle has done from the binding that raised on: nothing more.
Raised(state, calls, n) ==
    [state |-> state, out |-> <<>>, src |-> <<>>, calls |-> calls, fresh |-> n,
     raised |-> TRUE]

\* HandleAfter that invokes the form of binding i a second time.
HandleAfterTwice(bindings, i, datum, r) ==
    IF r.raised
    THEN Raised(r.state, <<i>>, r.fresh)
    ELSE Only({ YieldFrom(i, again, HandleFrom(bindings, i + 1, again.state, datum, again.fresh)) :
                  again \in {Form(bindings[i][2], r.state, datum, emits, r.fresh)} })

HandleAfter(bindings, i, datum, r) ==
    IF r.raised
    THEN Raised(r.state, <<i>>, r.fresh)
    ELSE Only({ YieldFrom(i, r, rest) :
                  rest \in {HandleFrom(bindings, i + 1, r.state, datum, r.fresh)} })

\* The loop of handle with every form run on the state as it was when handle
\* began (state0), the increments of the counting forms added up at the end.
RECURSIVE IsolatedFrom(_, _, _, _, _, _)
IsolatedFrom(bindings, i, state0, state, datum, n) ==
    IF i > Len(bindings)
    THEN [state |-> state, out |-> <<>>, src |-> <<>>, calls |-> <<>>, fresh |-> n,
          raised |-> FALSE]
    ELSE IF Selector(bindings[i][1], datum)
         THEN Only({ YieldFrom(i, r, IsolatedFrom(bindings, i + 1, state0,
                                                  DictWith(state, "count",
                                                           state["count"] + r.state["count"]
                                                             - state0["count"]),
                                                  datum, r.fresh)) :
                       r \in {Form(bindings[i][2], state0, datum, emits, n)} })
         ELSE IsolatedFrom(bindings, i + 1, state0, state, datum, n)

\* HandleFrom with the bindings isolated from one another.
HandleFromIsolated(bindings, i, state, datum, n) ==
    IsolatedFrom(bindings, i, state, state, datum, n)

\* HandleFrom without the selector test: every bound form is invoked.
HandleFromUnselected(bindings, i, state, datum, n) ==
    IF i > Len(bindings)
    THEN [state |-> state, out |-> <<>>, src |-> <<>>, calls |-> <<>>, fresh |-> n,
          raised |-> FALSE]
    ELSE Only({ HandleAfter(bindings, i, datum, r) :
                  r \in {Form(bindings[i][2], state, datum, emits, n)} })

HandleFrom(bindings, i, state, datum, n) ==
    IF i > Len(bindings)
    THEN [state |-> state, out |-> <<>>, src |-> <<>>, calls |-> <<>>, fresh |-> n,
          raised |-> FALSE]
    ELSE IF SelectorRaises(bindings[i][1], datum)
         THEN Raised(state, <<>>, n)
         ELSE IF Selector(bindings[i][1], datum)
              THEN Only({ HandleAfter(bindings, i, datum, r) :
                            r \in {Form(bindings[i][2], state, datum, emits, n)} })
              ELSE HandleFrom(bindings, i + 1, state, datum, n)

\* Handle that also notes the datum it was given in the occasion's state.
HandleTouchingState(self, datum, n) ==
    [HandleFrom(self._bindings, 1, self.state, datum, n)
       EXCEPT !.state = DictWith(@, "last", datum.name)]

\* ActualOccasion.handle(datum), run to exhaustion as emit's list(...) does.
Handle(self, datum, n) == HandleFrom(self._bindings, 1, self.state, datum, n)

(***************************************************************************)
(* Nexus                                                                   *)
(***************************************************************************)
\* DictSet that moves a name registered again to the end.
DictSetMovingLast(dict, name, o) ==
    Append(SelectSeq(dict, LAMBDA e : e[1] # name), <<name, o>>)

\* DictSet that keeps the occasion already registered under the name.
DictSetKeepingFirst(dict, name, o) ==
    IF \E i \in 1..Len(dict) : dict[i][1] = name THEN dict ELSE Append(dict, <<name, o>>)

\* self._occasions[name] = o: a new key goes last, an existing key keeps its place.
DictSet(dict, name, o) ==
    IF \E i \in 1..Len(dict) : dict[i][1] = name
    THEN [i \in 1..Len(dict) |-> IF dict[i][1] = name THEN <<name, o>> ELSE dict[i]]
    ELSE Append(dict, <<name, o>>)

\* The loop of Nexus.add.
RECURSIVE AddAll(_, _, _)
AddAll(dict, objs, i) ==
    IF i > Len(objs) THEN dict
    ELSE AddAll(DictSet(dict, occ[objs[i]].name, objs[i]), objs, i + 1)

\* The loop of Nexus.bind: ph.subject.on(ph.selector, ph.form) for each.
RECURSIVE BindAll(_, _, _)
BindAll(heap, prehensions, i) ==
    IF i > Len(prehensions) THEN heap
    ELSE LET ph == prehensions[i]
         IN  BindAll([heap EXCEPT ![ph.subject] = OccasionOn(@, ph.selector, ph.form)],
                     prehensions, i + 1)

\* The loop of Nexus._apply_middlewares from middleware i on.
RECURSIVE ApplyFrom(_, _)
ApplyFrom(i, d) ==
    IF i > Len(middlewares) THEN d ELSE ApplyFrom(i + 1, Middleware(middlewares[i], d))

\* ApplyMiddlewares with the middleware installed last applied first.
RECURSIVE ApplyDownFrom(_, _)
ApplyDownFrom(i, d) ==
    IF i < 1 THEN d ELSE ApplyDownFrom(i - 1, Middleware(middlewares[i], d))

ApplyMiddlewaresReversed(d) == ApplyDownFrom(Len(middlewares), d)

\* ApplyMiddlewares that runs the chain a second time on its own output.
ApplyMiddlewaresTwice(d) == ApplyFrom(1, ApplyFrom(1, d))

\* Nexus._apply_middlewares(d)
ApplyMiddlewares(d) == ApplyFrom(1, d)

\* Thread that gives the datum it builds the id of the datum being processed.
ThreadTakingId(d, current, now) ==
    Datum(d.name, d.payload, current.id, now,
          Some(Or(current.correlation_id, current.id)), Some(current.id))

\* The Datum(...) emit builds from a derived datum d while processing current.
Thread(d, current, now) ==
    Datum(d.name, d.payload, d.id, now,
          Some(Or(current.correlation_id, current.id)), Some(current.id))

\* Extend on a queue that holds three elements at most and drops the rest.
ExtendWithinCapacity(q, items) == SubSeq(q \o items, 1, IF Len(q \o items) < 3 THEN Len(q \o items) ELSE 3)

\* Extend that puts the items at the head of the queue.
ExtendFront(q, items) == items \o q

\* queue.extend(items)
Extend(q, items) == q \o items

\* The data emit builds from what an occasion's handle returned (h) while
\* processing current: ids threaded, then the middlewares applied (items),
\* with their history (logs) and a record of what the occasion did (did).
\* When handle raised, list(...) never returned and nothing is built.
Listed(h) == IF h.raised THEN 0 ELSE Len(h.out)

Derived(j, o, before, h, current, clog) ==
    [state |-> h.state,
     items |-> [k \in 1..Listed(h) |->
                  ApplyMiddlewares(Thread(h.out[k], current, Now(emits, h.fresh + k - 1)))],
     logs |-> [k \in 1..Listed(h) |->
                 [parent |-> Len(seen) + 1, depth |-> clog.depth + 1,
                  reactor |-> j, object |-> o,
                  binding |-> h.src[k].binding, k |-> h.src[k].k,
                  raw |-> h.out[k],
                  threaded |-> Thread(h.out[k], current, Now(emits, h.fresh + k - 1)),
                  current |-> current, root |-> clog.root]],
     did |-> [reactor |-> j, object |-> o, calls |-> h.calls,
              yielded |-> Len(h.out), before |-> before, after |-> h.state,
              raised |-> h.raised],
     fresh |-> h.fresh + Listed(h),
     raised |-> h.raised]

\* The body of emit's `for occ in self._occasions.values()` for the occasion
\* at position j: derived = list(occ.handle(current)), then the rest.
OccasionPass(j, heap, current, clog, n) ==
    Only({ Derived(j, occasions[j][2], heap[occasions[j][2]].state, h, current, clog) :
             h \in {Handle(heap[occasions[j][2]], current, n)} })

\* PassThen with the later occasions' data put first.
PassThenLaterFirst(p, rest) ==
    [occ |-> rest.occ,
     items |-> rest.items \o p.items,
     logs |-> rest.logs \o p.logs,
     did |-> <<p.did>> \o rest.did,
     fresh |-> rest.fresh,
     raised |-> rest.raised]

\* What the for loop has done once the occasion at position j has done p and
\* the occasions after it rest.
PassThen(p, rest) ==
    [occ |-> rest.occ,
     items |-> p.items \o rest.items,
     logs |-> p.logs \o rest.logs,
     did |-> <<p.did>> \o rest.did,
     fresh |-> rest.fresh,
     raised |-> rest.raised]

\* emit's for loop over the occasions from position j on.
RECURSIVE FanOutFrom(_, _, _, _, _)
RECURSIVE FanOutAfter(_, _, _, _, _)
\* The for loop left by the exception of the occasion at position j: the
\* later occasions are not reached.
Left(heap, p) ==
    [occ |-> heap, items |-> <<>>, logs |-> <<>>, did |-> <<p.did>>, fresh |-> p.fresh,
     raised |-> TRUE]

\* FanOutAfter that leaves the occasion's state as it was before handle ran.
FanOutAfterOnCopy(j, heap, current, clog, p) ==
    IF p.raised
    THEN Left(heap, p)
    ELSE Only({ PassThen(p, rest) :
                  rest \in {FanOutFrom(j + 1, heap, current, clog, p.fresh)} })

\* FanOutAfter that catches the exception and goes on with the later occasions.
FanOutAfterSwallowing(j, heap, current, clog, p) ==
    Only({ PassThen(p, rest) :
             rest \in {FanOutFrom(j + 1, [heap EXCEPT ![occasions[j][2]].state = p.state],
                                  current, clog, p.fresh)} })

FanOutAfter(j, heap, current, clog, p) ==
    IF p.raised
    THEN Left([heap EXCEPT ![occasions[j][2]].state = p.state], p)
    ELSE Only({ PassThen(p, rest) :
                  rest \in {FanOutFrom(j + 1,
                                       [heap EXCEPT ![occasions[j][2]].state = p.state],
                                       current, clog, p.fresh)} })

FanOutFrom(j, heap, current, clog, n) ==
    IF j > Len(occasions)
    THEN [occ |-> heap, items |-> <<>>, logs |-> <<>>, did |-> <<>>, fresh |-> n,
          raised |-> FALSE]
    ELSE Only({ FanOutAfter(j, heap, current, clog, p) :
                  p \in {OccasionPass(j, heap, current, clog, n)} })

\* One pass of emit's for loop over every registered occasion.
FanOut(current, clog) == FanOutFrom(1, occ, current, clog, fresh)

\* QueueNonEmpty with a limit on the number of data one call processes.
QueueNonEmptyUnderLimit(q) == Len(q) > 0 /\ Len(seen) < 3

\* `while queue:` goes on.
QueueNonEmpty(q) == Len(q) > 0

RECURSIVE SumBindings(_)
SumBindings(S) ==
    IF S = {} THEN 0
    ELSE LET o == CHOOSE x \in S : TRUE
         IN  Len(occ[o]._bindings) + SumBindings(S \ {o})

\* The number of (selector, form) pairs bound so far, over all occasions.
TotalBindings == SumBindings(DOMAIN occ)

Idle == pc \in {"idle", "done", "raised"}

\* The caller's next call: emit's locals and the last snapshot are gone.
RunDropped == /\ pc' = "idle"
              /\ data' = <<>> /\ queue' = <<>> /\ seen' = <<>>
              /\ qlog' = <<>> /\ slog' = <<>>
              /\ fresh' = 1
              /\ UNCHANGED <<emits, invoked>>

Init ==
    /\ occ = [o \in Objects |-> Occasion(NameOf(o), DictWith(<<>>, "count", 0), <<>>)]
    /\ occasions = <<>>
    /\ middlewares = <<>>
    /\ pc = "idle"
    /\ data = <<>> /\ queue = <<>> /\ seen = <<>> /\ qlog = <<>> /\ slog = <<>>
    /\ invoked = [o \in DOMAIN occ |-> 0]
    /\ emits = 0
    /\ fresh = 1
    /\ snap = None

\* occasion.on(selector, form)
On ==
    /\ Idle
    /\ TotalBindings < MaxBindings
    /\ \E o \in DOMAIN occ, b \in Bindings :
          occ' = [occ EXCEPT ![o] = OccasionOn(@, b[1], b[2])]
    /\ snap' = None
    /\ RunDropped
    /\ UNCHANGED <<occasions, middlewares>>

\* The argument lists of add.
AddArgs(objs) == { <<o>> : o \in objs } \cup { <<o, p>> : o \in objs, p \in objs }

\* nexus.add(*occasions)
Add ==
    /\ Idle
    /\ \E objs \in AddArgs(DOMAIN occ) : occasions' = AddAll(occasions, objs, 1)
    /\ snap' = None
    /\ RunDropped
    /\ UNCHANGED <<occ, middlewares>>

\* nexus.bind(*prehensions)
Prehension(subject, selector, form) ==
    [subject |-> subject, selector |-> selector, form |-> form]

Prehensions(objs) == { Prehension(o, b[1], b[2]) : o \in objs, b \in Bindings }

\* The argument lists of bind.
BindArgs(objs) ==
    { <<p>> : p \in Prehensions(objs) }
    \cup { <<p, q>> : p \in Prehensions(objs), q \in Prehensions(objs) }

\* Bind that also registers the subjects of the prehensions.
BindRegistering ==
    /\ Idle
    /\ \E phs \in BindArgs(DOMAIN occ) :
          /\ TotalBindings + Len(phs) <= MaxBindings
          /\ occ' = BindAll(occ, phs, 1)
          /\ occasions' = AddAll(occasions, [i \in 1..Len(phs) |-> phs[i].subject], 1)
    /\ snap' = None
    /\ RunDropped
    /\ UNCHANGED middlewares

Bind ==
    /\ Idle
    /\ \E phs \in BindArgs(DOMAIN occ) :
          /\ TotalBindings + Len(phs) <= MaxBindings
          /\ occ' = BindAll(occ, phs, 1)
    /\ snap' = None
    /\ RunDropped
    /\ UNCHANGED <<occasions, middlewares>>

\* nexus.use(middleware)
Use ==
    /\ Idle
    /\ Len(middlewares) < MaxMiddlewares
    /\ \E mw \in Middlewares : middlewares' = Append(middlewares, mw)
    /\ snap' = None
    /\ RunDropped
    /\ UNCHANGED <<occ, occasions>>

\* EmitStart that gives an initial datum without a correlation id its own id
\* as correlation id before it queues it.
EmitStartThreading ==
    /\ Idle
    /\ emits < MaxEmits
    /\ data' \in InputData
    /\ queue' = [i \in 1..Len(data') |->
                   [ApplyMiddlewares(data'[i]) EXCEPT
                      !.correlation_id = Some(Or(@, ApplyMiddlewares(data'[i]).id))]]
    /\ qlog' = [i \in 1..Len(data') |->
                  [parent |-> 0, depth |-> 0, reactor |-> 0, object |-> "",
                   binding |-> 0, k |-> i, raw |-> data'[i], threaded |-> data'[i],
                   current |-> data'[i], root |-> ApplyMiddlewares(data'[i])]]
    /\ seen' = <<>>
    /\ slog' = <<>>
    /\ emits' = emits + 1
    /\ fresh' = 1
    /\ pc' = "loop"
    /\ snap' = None
    /\ UNCHANGED <<occ, occasions, middlewares, invoked>>

\* EmitStart that goes on with the list the previous call returned.
EmitStartKeepingSeen ==
    /\ Idle
    /\ emits < MaxEmits
    /\ data' \in InputData
    /\ queue' = [i \in 1..Len(data') |-> ApplyMiddlewares(data'[i])]
    /\ qlog' = [i \in 1..Len(data') |->
                  [parent |-> 0, depth |-> 0, reactor |-> 0, object |-> "",
                   binding |-> 0, k |-> i, raw |-> data'[i], threaded |-> data'[i],
                   current |-> data'[i], root |-> ApplyMiddlewares(data'[i])]]
    /\ emits' = emits + 1
    /\ fresh' = 1
    /\ pc' = "loop"
    /\ snap' = None
    /\ UNCHANGED <<occ, occasions, middlewares, invoked, seen, slog>>

\* nexus.emit(*data), up to the first test of `while queue:`.
EmitStart ==
    /\ Idle
    /\ emits < MaxEmits
    /\ data' \in InputData
    /\ queue' = [i \in 1..Len(data') |-> ApplyMiddlewares(data'[i])]
    /\ qlog' = [i \in 1..Len(data') |->
                  [parent |-> 0, depth |-> 0, reactor |-> 0, object |-> "",
                   binding |-> 0, k |-> i, raw |-> data'[i], threaded |-> data'[i],
                   current |-> data'[i], root |-> ApplyMiddlewares(data'[i])]]
    /\ seen' = <<>>
    /\ slog' = <<>>
    /\ emits' = emits + 1
    /\ fresh' = 1
    /\ pc' = "loop"
    /\ snap' = None
    /\ UNCHANGED <<occ, occasions, middlewares, invoked>>

\* The forms that add one to state["count"] each time they are invoked.
Counting(form) == form \in {"derive", "pair"}

\* The number of invocations of a counting form among the bindings calls of
\* object o.
CountingCalls(o, calls) ==
    Cardinality({c \in 1..Len(calls) : Counting(occ[o]._bindings[calls[c]][2])})

\* The number of invocations of a counting form on object o that the records
\* did report.
RECURSIVE Calls(_, _)
Calls(did, o) ==
    IF did = <<>> THEN 0
    ELSE (IF did[1].object = o THEN CountingCalls(o, did[1].calls) ELSE 0)
         + Calls(Tail(did), o)

\* The effect of one iteration of emit's while loop, f being what the for
\* loop over the occasions did with current. An exception leaves emit, with
\* queue and seen as they were when it was raised.
Iteration(current, clog, f) ==
    /\ pc' = IF f.raised THEN "raised" ELSE "loop"
    /\ seen' = Append(seen, current)
    /\ slog' = Append(slog, [log |-> clog, did |-> f.did])
    /\ queue' = Extend(Tail(queue), f.items)
    /\ qlog' = Extend(Tail(qlog), f.logs)
    /\ occ' = f.occ
    /\ fresh' = f.fresh
    /\ invoked' = [o \in DOMAIN invoked |->
                     invoked[o] + Calls(f.did, o)]

\* One iteration of emit's while loop: pop the head, append it to seen, let
\* every occasion handle it, and queue what they derive.
EmitStep ==
    /\ pc = "loop"
    /\ QueueNonEmpty(queue)
    /\ qlog[1].depth <= MaxDepth
    /\ \E f \in {FanOut(queue[1], qlog[1])} : Iteration(queue[1], qlog[1], f)
    /\ UNCHANGED <<occasions, middlewares, data, emits, snap>>

\* EmitReturn that goes round the loop again instead of returning.
EmitReturnSpins ==
    /\ pc = "loop"
    /\ ~QueueNonEmpty(queue)
    /\ pc' = "loop"
    /\ UNCHANGED <<occ, occasions, middlewares, data, queue, seen, emits, fresh, snap,
                   qlog, slog, invoked>>

\* `while queue:` finds the queue empty: return seen.
EmitReturn ==
    /\ pc = "loop"
    /\ ~QueueNonEmpty(queue)
    /\ pc' = "done"
    /\ UNCHANGED <<occ, occasions, middlewares, data, queue, seen, emits, fresh, snap,
                   qlog, slog, invoked>>

\* nexus.snapshot(): {name: occ.state}; each value is the occasion's own state dict.
SnapshotOf(dict) == [i \in 1..Len(dict) |-> dict[i]]

Snapshot ==
    /\ Idle
    /\ snap' = Some(SnapshotOf(occasions))
    /\ RunDropped
    /\ UNCHANGED <<occ, occasions, middlewares>>

Next == On \/ Add \/ Bind \/ Use \/ EmitStart \/ EmitStep \/ EmitReturn \/ Snapshot

Spec == Init /\ [][Next]_vars

(***************************************************************************)
(* Scenarios: the same operations from a nexus the caller has already set  *)
(* up in part, each exploring the calls that are left.                     *)
(***************************************************************************)
\* The caller has built O1 and O2 and called nexus.add(O1, O2); it goes on to
\* bind forms, to emit and to take snapshots.
InitCore ==
    /\ occ = [o \in {"O1", "O2"} |-> Occasion(NameOf(o), DictWith(<<>>, "count", 0), <<>>)]
    /\ occasions = AddAll(<<>>, <<"O1", "O2">>, 1)
    /\ middlewares = <<>>
    /\ pc = "idle"
    /\ data = <<>> /\ queue = <<>> /\ seen = <<>> /\ qlog = <<>> /\ slog = <<>>
    /\ invoked = [o \in DOMAIN occ |-> 0]
    /\ emits = 0
    /\ fresh = 1
    /\ snap = None

NextCore == On \/ Bind \/ EmitStart \/ EmitStep \/ EmitReturn \/ Snapshot

SpecCore == InitCore /\ [][NextCore]_vars

\* emit is one synchronous call: once started, its loop runs on.
FairCore == SpecCore /\ WF_vars(EmitStep) /\ WF_vars(EmitReturn)

\* The caller has built O1, bound at most one form to it, and registered it or
\* not; it goes on to install middlewares and to emit.
InitMw ==
    /\ \E bs \in {<<>>} \cup { <<b>> : b \in Bindings } :
          occ = [o \in {"O1"} |-> Occasion(NameOf(o), DictWith(<<>>, "count", 0), bs)]
    /\ occasions \in { <<>>, <<<<"A", "O1">>>> }
    /\ middlewares = <<>>
    /\ pc = "idle"
    /\ data = <<>> /\ queue = <<>> /\ seen = <<>> /\ qlog = <<>> /\ slog = <<>>
    /\ invoked = [o \in DOMAIN occ |-> 0]
    /\ emits = 0
    /\ fresh = 1
    /\ snap = None

NextMw == Use \/ EmitStart \/ EmitStep \/ EmitReturn

SpecMw == InitMw /\ [][NextMw]_vars

\* The caller has built O1 and O3 under the same name and O2 under another,
\* and bound a counting form to each; it goes on to register them, in any
\* order and any number of times, to emit and to take snapshots.
InitAdd ==
    /\ occ = [o \in Objects |->
                Occasion(NameOf(o), DictWith(<<>>, "count", 0),
                         IF o = "O3" THEN <<<<"is_input", "pair">>>>
                                     ELSE <<<<"not_final", "derive">>>>)]
    /\ occasions = <<>>
    /\ middlewares = <<>>
    /\ pc = "idle"
    /\ data = <<>> /\ queue = <<>> /\ seen = <<>> /\ qlog = <<>> /\ slog = <<>>
    /\ invoked = [o \in DOMAIN occ |-> 0]
    /\ emits = 0
    /\ fresh = 1
    /\ snap = None

NextAdd == Add \/ EmitStart \/ EmitStep \/ EmitReturn \/ Snapshot

SpecAdd == InitAdd /\ [][NextAdd]_vars

\* The (selector, form) pairs that raise on some data.
RaisingBindings == { <<"not_final", "fail">>, <<"picky", "derive">> }

\* The caller has registered O1 with two bindings and O2 with one, raising
\* ones among them; it goes on to emit and to take snapshots.
InitRaise ==
    /\ \E b1 \in {<<"not_final", "derive">>} \cup RaisingBindings,
          b2 \in {<<"not_final", "derive">>} \cup RaisingBindings,
          b3 \in {<<"not_final", "derive">>} \cup RaisingBindings :
          occ = [o \in {"O1", "O2"} |->
                   Occasion(NameOf(o), DictWith(<<>>, "count", 0),
                            IF o = "O1" THEN <<b1, b2>> ELSE <<b3>>)]
    /\ occasions = AddAll(<<>>, <<"O1", "O2">>, 1)
    /\ middlewares = <<>>
    /\ pc = "idle"
    /\ data = <<>> /\ queue = <<>> /\ seen = <<>> /\ qlog = <<>> /\ slog = <<>>
    /\ invoked = [o \in DOMAIN occ |-> 0]
    /\ emits = 0
    /\ fresh = 1
    /\ snap = None

NextRaise == EmitStart \/ EmitStep \/ EmitReturn \/ Snapshot

SpecRaise == InitRaise /\ [][NextRaise]_vars

\* The (selector, form) pairs that yield a datum that exists already.
RepeatingBindings == { <<"is_root", "relay">>, <<"is_input", "twice">> }

\* The caller has registered O1 with one or two bindings, repeating ones
\* among them; it goes on to emit.
InitTree ==
    /\ \E bs \in { <<b>> : b \in {<<"not_final", "derive">>} \cup RepeatingBindings }
                 \cup { <<b, c>> : b \in {<<"not_final", "derive">>} \cup RepeatingBindings,
                                   c \in {<<"not_final", "derive">>} \cup RepeatingBindings } :
          occ = [o \in {"O1"} |-> Occasion(NameOf(o), DictWith(<<>>, "count", 0), bs)]
    /\ occasions = AddAll(<<>>, <<"O1">>, 1)
    /\ middlewares = <<>>
    /\ pc = "idle"
    /\ data = <<>> /\ queue = <<>> /\ seen = <<>> /\ qlog = <<>> /\ slog = <<>>
    /\ invoked = [o \in DOMAIN occ |-> 0]
    /\ emits = 0
    /\ fresh = 1
    /\ snap = None

NextTree == EmitStart \/ EmitStep \/ EmitReturn

SpecTree == InitTree /\ [][NextTree]_vars

\* The lists of at most MaxBindings bindings.
BindingLists == UNION { [1..n -> Bindings] : n \in 0..MaxBindings }

\* The caller has built O1 and O2, bound MaxBindings forms at most to them,
\* and called nexus.add(O1, O2); it goes on to emit.
InitRun ==
    /\ \E b1 \in BindingLists, b2 \in BindingLists :
          /\ Len(b1) + Len(b2) <= MaxBindings
          /\ occ = [o \in {"O1", "O2"} |->
                      Occasion(NameOf(o), DictWith(<<>>, "count", 0),
                               IF o = "O1" THEN b1 ELSE b2)]
    /\ occasions = AddAll(<<>>, <<"O1", "O2">>, 1)
    /\ middlewares = <<>>
    /\ pc = "idle"
    /\ data = <<>> /\ queue = <<>> /\ seen = <<>> /\ qlog = <<>> /\ slog = <<>>
    /\ invoked = [o \in DOMAIN occ |-> 0]
    /\ emits = 0
    /\ fresh = 1
    /\ snap = None

NextRun == EmitStart \/ EmitStep \/ EmitReturn

SpecRun == InitRun /\ [][NextRun]_vars

\* The caller has built O1 and O2, called nexus.add(O1) only and installed a
\* middleware; it goes on to bind forms to either occasion and to emit.
InitBind ==
    /\ occ = [o \in {"O1", "O2"} |-> Occasion(NameOf(o), DictWith(<<>>, "count", 0), <<>>)]
    /\ occasions = AddAll(<<>>, <<"O1">>, 1)
    /\ middlewares = <<"stamp">>
    /\ pc = "idle"
    /\ data = <<>> /\ queue = <<>> /\ seen = <<>> /\ qlog = <<>> /\ slog = <<>>
    /\ invoked = [o \in DOMAIN occ |-> 0]
    /\ emits = 0
    /\ fresh = 1
    /\ snap = None

NextBind == Bind \/ EmitStart \/ EmitStep \/ EmitReturn

SpecBind == InitBind /\ [][NextBind]_vars

(***************************************************************************)
(* Properties.  Entry i of slog (of qlog) tells where seen[i] (queue[i])   *)
(* came from: parent is the position in seen of the datum being processed  *)
(* when it was derived (0 for an initial datum), reactor the position of   *)
(* the occasion in the registry, binding and k the binding and the place   *)
(* in that binding's output, raw the datum as yielded (or as passed to     *)
(* emit), threaded the datum after id threading, root the initial datum it *)
(* descends from, as queued.                                               *)
(***************************************************************************)
Origin(i) == slog[i].log

IsDerived(i) == Origin(i).parent > 0

\* Every installed middleware leaves id, correlation_id and causation_id alone.
MiddlewaresKeepIds == \A m \in 1..Len(middlewares) : PreservesIds(middlewares[m])

\* The correlation id the documentation gives the descendants of datum d:
\* d.correlation_id if it is set (not None), d.id otherwise.
CorrelationOf(d) == IF d.correlation_id # None THEN d.correlation_id ELSE Some(d.id)

\* C1: in the sequence emit returns, every derived datum has the id of the
\* datum it was derived from as causation_id, and as correlation_id that
\* datum's correlation_id when it is set (any value but None, "" included)
\* and that datum's id otherwise, whatever ids the form gave it; middlewares
\* absent or leaving the ids alone.
C1_DerivedIdsFollowCurrent ==
    (pc = "done" /\ MiddlewaresKeepIds) =>
        \A i \in 1..Len(seen) :
            IsDerived(i) =>
                /\ seen[i].causation_id = Some(seen[Origin(i).parent].id)
                /\ seen[i].correlation_id = CorrelationOf(seen[Origin(i).parent])

\* C2: in the sequence emit returns, every datum that descends from initial
\* datum F carries F's correlation_id if F has one and F's id otherwise, and
\* the id of its immediate parent as causation_id; middlewares absent or
\* leaving the ids alone.
C2_CorrelationIsRootOfChain ==
    (pc = "done" /\ MiddlewaresKeepIds) =>
        \A i \in 1..Len(seen) :
            IsDerived(i) =>
                /\ seen[i].correlation_id = CorrelationOf(Origin(i).root)
                /\ seen[i].causation_id = Some(seen[Origin(i).parent].id)

\* Every datum of the run in the order it was queued, and where each came from.
AllData == seen \o queue

AllOrigins == [i \in 1..Len(slog) |-> slog[i].log] \o qlog

InEmit == pc \in {"loop", "done"}

\* m_n(...m_2(m_1(x))...) for mws = <<m_1, ..., m_n>>.
RECURSIVE Composed(_, _)
Composed(mws, x) ==
    IF mws = <<>> THEN x
    ELSE Middleware(mws[Len(mws)], Composed(SubSeq(mws, 1, Len(mws) - 1), x))

\* C3: for emit(F1, ..., Fn) the first n data observed are F1, ..., Fn with
\* the middlewares applied, in argument order, and every derived datum comes
\* after all of them.
C3_InputsBeforeDerived ==
    InEmit =>
        /\ Len(AllData) >= Len(data)
        /\ \A i \in 1..Len(AllData) :
              IF i <= Len(data)
              THEN /\ AllOrigins[i].parent = 0
                   /\ AllData[i] = Composed(middlewares, data[i])
              ELSE AllOrigins[i].parent > 0

C3_Witness ==
    /\ pc = "done"
    /\ Len(data) = 2
    /\ Len(seen) >= 4
    /\ middlewares # <<>>

\* C4: of the data derived while processing one datum, those of a reactor
\* registered earlier are queued (and returned) before those of a reactor
\* registered later, and those of one reactor in the order they were yielded
\* (the order in which the forms built them).
C4_FanOutOrder ==
    \A origins \in {AllOrigins} :
        \A i \in 1..Len(origins) : \A j \in (i + 1)..Len(origins) :
            (/\ origins[i].parent > 0
             /\ origins[i].parent = origins[j].parent)
            => \/ origins[i].reactor < origins[j].reactor
               \/ /\ origins[i].reactor = origins[j].reactor
                  /\ origins[i].raw.created_at.tick < origins[j].raw.created_at.tick

C4_Witness ==
    /\ pc = "done"
    /\ \E i \in 1..Len(seen), j \in 1..Len(seen), l \in 1..Len(seen) :
          /\ i < j /\ j < l
          /\ IsDerived(i)
          /\ Origin(i).parent = Origin(j).parent
          /\ Origin(j).parent = Origin(l).parent
          /\ Origin(i).reactor = 1
          /\ Origin(j).reactor = 1
          /\ Origin(l).reactor = 2

\* The bindings of every occasion only grow at the end.
BindingsOnlyAppended ==
    \A o \in DOMAIN occ :
        /\ Len(occ'[o]._bindings) >= Len(occ[o]._bindings)
        /\ SubSeq(occ'[o]._bindings, 1, Len(occ[o]._bindings)) = occ[o]._bindings

\* handle yields binding by binding: of the data one reactor derived from one
\* datum, those of an earlier binding come first, each binding's in yield order.
HandleYieldsInBindingOrder ==
    \A origins \in {AllOrigins} :
        \A i \in 1..Len(origins) : \A j \in (i + 1)..Len(origins) :
            (/\ origins[i].parent > 0
             /\ origins[i].parent = origins[j].parent
             /\ origins[i].reactor = origins[j].reactor)
            => \/ origins[i].binding < origins[j].binding
               \/ /\ origins[i].binding = origins[j].binding
                  /\ origins[i].k < origins[j].k

\* C5: when several bindings of a reactor match a datum, handle yields the
\* outputs of the binding registered first, in its yield order, before those
\* of the next, and so on; registration order is the order of the on() calls
\* and never changes.
C5_BindingOrder == [][BindingsOnlyAppended]_vars /\ []HandleYieldsInBindingOrder

C5_Witness ==
    /\ pc = "done"
    /\ \E i \in 1..Len(seen), j \in 1..Len(seen), l \in 1..Len(seen) :
          /\ i < j /\ j < l
          /\ IsDerived(i)
          /\ Origin(i).parent = Origin(j).parent
          /\ Origin(j).parent = Origin(l).parent
          /\ Origin(i).reactor = Origin(j).reactor
          /\ Origin(j).reactor = Origin(l).reactor
          /\ Origin(i).binding = 1 /\ Origin(i).k = 1
          /\ Origin(j).binding = 1 /\ Origin(j).k = 2
          /\ Origin(l).binding = 2

\* C6: with middlewares <<m1, m2>> every datum placed on the queue is
\* m2(m1(X)), X being the initial datum as passed to emit or the derived
\* datum after id threading.
C6_MiddlewareComposition ==
    \A i \in 1..Len(AllData) :
        /\ AllData[i] = Composed(middlewares, AllOrigins[i].threaded)
        /\ AllOrigins[i].parent = 0 => AllOrigins[i].threaded = data[i]

C6_Witness ==
    /\ pc = "done"
    /\ middlewares = <<"reroute", "stamp">>
    /\ \E i \in 1..Len(seen) :
          /\ IsDerived(i)
          /\ seen[i].payload["by"] = "stamp"
          /\ seen[i] # Origin(i).threaded

\* No binding of a registered occasion has a selector matching datum d.
NoSelectorMatches(d) ==
    \A j \in 1..Len(occasions) :
        \A b \in 1..Len(occ[occasions[j][2]]._bindings) :
            ~Selector(occ[occasions[j][2]]._bindings[b][1], d)

\* C7: emit(F) with no registered reactor, or with reactors none of whose
\* selectors matches, observes F with the middlewares applied and nothing
\* else, so that the loop ends after one iteration and returns exactly that
\* one datum: F itself when no middleware is installed.
C7_PassThrough ==
    (InEmit /\ Len(data) = 1 /\ NoSelectorMatches(Composed(middlewares, data[1]))) =>
        /\ AllData = <<Composed(middlewares, data[1])>>
        /\ pc = "done" => seen = AllData
        /\ middlewares = <<>> => AllData = data

C7_Witness ==
    /\ pc = "done"
    /\ Len(data) = 1
    /\ occasions # <<>>
    /\ occ["O1"]._bindings # <<>>
    /\ middlewares # <<>>
    /\ NoSelectorMatches(Composed(middlewares, data[1]))

\* C8: when no binding's selector matches the datum, handle yields nothing,
\* invokes no form and leaves the reactor's state as it was.
C8_NoMatchNoEffect ==
    \A origins \in {AllOrigins} :
        \A i \in 1..Len(slog) :
            \A r \in 1..Len(slog[i].did) :
                LET d == slog[i].did[r]
                    bs == occ[d.object]._bindings
                IN  (\A b \in 1..Len(bs) : ~Selector(bs[b][1], seen[i])) =>
                        /\ d.yielded = 0
                        /\ d.calls = <<>>
                        /\ d.after = d.before
                        /\ \A l \in 1..Len(origins) :
                              ~(origins[l].parent = i /\ origins[l].reactor = d.reactor)

C8_Witness ==
    /\ pc = "done"
    /\ \E i \in 1..Len(slog) :
          \E r \in 1..Len(slog[i].did) :
              LET d == slog[i].did[r]
                  bs == occ[d.object]._bindings
              IN  /\ Len(bs) = 2
                  /\ d.before["count"] > 0
                  /\ \A b \in 1..Len(bs) : ~Selector(bs[b][1], seen[i])

\* No registered occasion has a binding whose form derives from its own
\* output for ever: derive and pair lead to "final", which they never match.
FormsStopProducing ==
    \A j \in 1..Len(occasions) :
        \A b \in 1..Len(occ[occasions[j][2]]._bindings) :
            occ[occasions[j][2]]._bindings[b][2] # "echo"

\* C9: if the forms stop producing new data, emit reaches an empty queue and
\* returns the observed sequence.
C9_Termination == (pc = "loop" /\ FormsStopProducing) ~> (pc = "done" /\ queue = <<>>)

C9_Witness ==
    /\ pc = "done"
    /\ FormsStopProducing
    /\ \E i \in 1..Len(seen) : Origin(i).depth = 2

\* What the caller sees in the mapping snapshot() returned: name -> state.
SnapshotView ==
    [i \in 1..Len(snap[1]) |-> [name |-> snap[1][i][1], state |-> occ[snap[1][i][2]].state]]

\* C10: snapshot() maps every registered reactor name to the reactor's state
\* as all the form invocations of all the emit calls so far have left it: the
\* count a counting form keeps is the number of its invocations since the
\* reactor was built.
C10_SnapshotIsCumulative ==
    snap # None =>
        /\ Len(SnapshotView) = Len(occasions)
        /\ \A j \in 1..Len(occasions) :
              /\ SnapshotView[j].name = occasions[j][1]
              /\ SnapshotView[j].state["count"] = invoked[occasions[j][2]]

C10_Witness ==
    /\ snap # None
    /\ emits = 2
    /\ occ["O1"]._bindings = <<<<"is_input", "pair">>>>
    /\ SnapshotView[1].state["count"] = 3

\* The objects registered under name in dict (none or one, when names are unique).
Registered(dict, name) == { dict[i][2] : i \in {k \in 1..Len(dict) : dict[k][1] = name} }

NamesUnique(dict) ==
    \A i \in 1..Len(dict), j \in 1..Len(dict) : dict[i][1] = dict[j][1] => i = j

\* What add(*objs) makes of the registry: under every name the object of that
\* name given last, or, if none was given, the object registered before.
AddReplaces ==
    \A objs \in AddArgs(DOMAIN occ) :
        \A after \in {AddAll(occasions, objs, 1)} :
            /\ NamesUnique(after)
            /\ \A o \in DOMAIN occ :
                  LET given == {k \in 1..Len(objs) : occ[objs[k]].name = occ[o].name}
                  IN  Registered(after, occ[o].name) =
                        IF given = {}
                        THEN Registered(occasions, occ[o].name)
                        ELSE {objs[CHOOSE k \in given : \A l \in given : l <= k]}

\* A step invokes the forms of registered occasions only.
OnlyRegisteredInvoked ==
    \A o \in DOMAIN occ :
        (invoked'[o] # invoked[o] \/ occ'[o].state # occ[o].state)
            => \E j \in 1..Len(occasions) : occasions[j][2] = o

\* snapshot() has one entry per registered name, showing the state of the
\* occasion registered under it.
SnapshotShowsRegistered ==
    snap # None =>
        /\ NamesUnique(snap[1])
        /\ snap[1] = SnapshotOf(occasions)
        /\ \A i \in 1..Len(snap[1]) :
              snap[1][i][1] = occ[occasions[i][2]].name

\* C11: the registry holds at most one reactor per name; add under a
\* registered name never fails and replaces the reactor registered before, so
\* that emit invokes, and snapshot shows, only the reactor registered last.
C11_NameReplacement ==
    /\ [](NamesUnique(occasions) /\ AddReplaces /\ SnapshotShowsRegistered
            /\ (Idle => ENABLED Add))
    /\ [][OnlyRegisteredInvoked]_vars

C11_Witness ==
    /\ snap # None
    /\ Registered(occasions, "A") = {"O3"}
    /\ invoked["O1"] > 0
    /\ invoked["O3"] > 0
    /\ occ["O3"].state["count"] = invoked["O3"]

\* Handling d, the binding raises: its selector does, or its selector matches
\* and its form does.
Raises(binding, d) ==
    SelectorRaises(binding[1], d) \/ (Selector(binding[1], d) /\ binding[2] = "fail")

\* The bindings of bs that raise on d.
RaisingOn(bs, d) == {b \in 1..Len(bs) : Raises(bs[b], d)}

\* The positions of the registered occasions with a binding that raises on d.
RaisingReactors(d) ==
    {j \in 1..Len(occasions) : RaisingOn(occ[occasions[j][2]]._bindings, d) # {}}

Least(S) == CHOOSE x \in S : \A y \in S : x <= y

\* The bindings of bs up to b whose form is invoked on d when b is the first
\* binding that raises.
InvokedUpTo(bs, b, d) ==
    {c \in 1..b : Selector(bs[c][1], d) /\ ~SelectorRaises(bs[c][1], d)}

\* Every processed datum on which no binding raises went to every occasion;
\* the datum on which one raises is the last one processed, handling stopped
\* at the first raising binding of the first raising occasion, and emit was left.
RaiseAborts ==
    \A i \in 1..Len(slog) :
        \A rec \in {slog[i].did} :
            IF RaisingReactors(seen[i]) = {}
            THEN /\ Len(rec) = Len(occasions)
                 /\ \A r \in 1..Len(rec) : ~rec[r].raised
                 /\ i = Len(slog) => pc # "raised"
            ELSE LET j == Least(RaisingReactors(seen[i]))
                     bs == occ[occasions[j][2]]._bindings
                     b == Least(RaisingOn(bs, seen[i]))
                 IN  /\ i = Len(slog)
                     /\ pc = "raised"
                     /\ Len(rec) = j
                     /\ \A r \in 1..(j - 1) : ~rec[r].raised
                     /\ rec[j].raised
                     /\ {rec[j].calls[c] : c \in 1..Len(rec[j].calls)} = InvokedUpTo(bs, b, seen[i])
                     /\ \A l \in 1..Len(qlog) :
                           qlog[l].parent = i => qlog[l].reactor < j

\* What the forms did before the exception stays done: every occasion's count
\* is the number of invocations of its counting forms, and the occasions that
\* handled the last datum are in the state handle left them in.
NoRollback ==
    /\ \A o \in DOMAIN occ : occ[o].state["count"] = invoked[o]
    /\ pc = "raised" =>
          \A rec \in {slog[Len(slog)].did} :
              \A r \in 1..Len(rec) :
                  /\ occ[rec[r].object].state = rec[r].after
                  /\ rec[r].after["count"] =
                        rec[r].before["count"] + CountingCalls(rec[r].object, rec[r].calls)

\* Once emit is left by an exception nothing of that run is processed any more.
RaisedRunIsOver == pc = "raised" => seen' = <<>>

\* C12: a selector or form that raises ends emit at once: no later binding,
\* later reactor or queued datum is processed, and the state mutations made
\* before stay in place.
C12_RaiseAbortsNoRollback ==
    /\ [](RaiseAborts /\ NoRollback)
    /\ [][RaisedRunIsOver]_vars

C12_Witness ==
    /\ pc = "raised"
    /\ Len(seen) = 2
    /\ queue # <<>>
    /\ Len(occasions) = 2
    /\ \E rec \in {slog[Len(slog)].did} :
          /\ Len(rec) = 1
          /\ rec[1].calls = <<1>>
          /\ rec[1].after["count"] = rec[1].before["count"] + 1
          /\ occ[rec[1].object].state["count"] = 2

\* The positions in the returned sequence that the causation_id of the datum
\* at position i points to.
CausationParents(i) ==
    {j \in 1..Len(seen) : seen[i].causation_id = Some(seen[j].id)}

\* C13: in the sequence emit returns, the causation_id of every derived datum
\* is the id of the datum it was derived from, and the causation links form a
\* tree: the link of a derived datum leads to exactly one datum, which comes
\* earlier in the sequence, so that following the links ends at an initial
\* datum without a cycle; the initial data have no link.
C13_CausationTree ==
    pc = "done" =>
        \A i \in 1..Len(seen) :
            IF IsDerived(i)
            THEN /\ seen[i].causation_id = Some(seen[Origin(i).parent].id)
                 /\ CausationParents(i) = {Origin(i).parent}
                 /\ Origin(i).parent < i
            ELSE CausationParents(i) = {}

\* The ids uuid4 has handed out during the current emit call.
IdsOfThisCall == { Uuid(emits, n) : n \in 1..fresh }

\* Everything emit has observed is one of this call's initial data, as the
\* middlewares rewrote it, or was derived during this call from a datum
\* observed before it; nothing is left in the queue at return.
OnlyThisCall ==
    InEmit =>
        /\ Len(slog) = Len(seen)
        /\ pc = "done" => queue = <<>>
        /\ \A i \in 1..Len(seen) :
              IF IsDerived(i)
              THEN /\ Origin(i).parent < i
                   /\ seen[i].id \in IdsOfThisCall
                   /\ seen[i].created_at.run = emits
              ELSE /\ Origin(i).k \in 1..Len(data)
                   /\ seen[i] = ApplyMiddlewares(data[Origin(i).k])
        /\ Cardinality({i \in 1..Len(seen) : ~IsDerived(i)}) + Len(queue) >= Len(data)
        /\ pc = "done" => Cardinality({i \in 1..Len(seen) : ~IsDerived(i)}) = Len(data)

\* The steps of emit leave the registry and the middleware list as they are,
\* and a call that has begun ends before the next call.
EmitKeepsNexus ==
    /\ (pc = "loop" \/ pc' = "loop") => (occasions' = occasions /\ middlewares' = middlewares)
    /\ pc = "loop" => pc' \in {"loop", "done", "raised"}
    /\ pc' = "loop" /\ pc # "loop" => (Idle /\ seen' = <<>>)

\* C14: each emit call is a run of its own: its queue is empty at return, the
\* sequence it returns holds only the call's initial data and what was
\* derived from them, never data of an earlier call, and the call leaves the
\* registry and the middleware list unchanged.
C14_SelfContainedRun == []OnlyThisCall /\ [][EmitKeepsNexus]_vars

C14_Witness ==
    /\ pc = "done"
    /\ emits = 2
    /\ occasions # <<>>
    /\ occ["O1"]._bindings = <<<<"is_input", "pair">>>>
    /\ invoked["O1"] = 2
    /\ Len(seen) = 3
    /\ middlewares # <<>>

\* The number of causation hops from an initial datum to the datum with
\* history origins[i].
RECURSIVE Hops(_, _)
Hops(origins, i) ==
    IF origins[i].parent = 0 THEN 0 ELSE 1 + Hops(origins, origins[i].parent)

\* Where a datum comes in its generation: the position of its parent, then
\* the reactor, then the binding and the place in the binding's output; for
\* an initial datum the place in emit's arguments.
ComesBefore(a, b) ==
    \/ a.parent < b.parent
    \/ /\ a.parent = b.parent
       /\ \/ a.reactor < b.reactor
          \/ /\ a.reactor = b.reactor
             /\ \/ a.binding < b.binding
                \/ (a.binding = b.binding /\ a.k < b.k)

\* C15: along the observed sequence, and on into the queue, the derivation
\* depth never decreases, so every datum of depth k comes before any of depth
\* k+1, and data of the same depth come ordered by the position of their
\* parent, then by reactor registration order, then by yield order.
C15_BreadthFirst ==
    \A origins \in {AllOrigins} :
        \A i \in 1..(Len(origins) - 1) :
            /\ origins[i].parent < i
            /\ Hops(origins, i) <= Hops(origins, i + 1)
            /\ Hops(origins, i) = Hops(origins, i + 1)
                  => ComesBefore(origins[i], origins[i + 1])

C15_Witness ==
    /\ pc = "done"
    /\ \E i \in 1..Len(seen), j \in 1..Len(seen), l \in 1..Len(seen) :
          /\ i < j /\ j < l
          /\ Hops(AllOrigins, i) = 1
          /\ Hops(AllOrigins, j) = 1
          /\ Hops(AllOrigins, l) = 2
          /\ Origin(i).parent < Origin(j).parent
          /\ Origin(l).parent = i
    /\ \E i \in 1..Len(seen) :
          /\ i < Len(seen)
          /\ IsDerived(i)
          /\ Origin(i).parent = Origin(i + 1).parent
          /\ Origin(i).reactor < Origin(i + 1).reactor

\* The bindings of bs whose selector matches d, in binding order.
Matching(bs, d) ==
    SelectSeq([b \in 1..Len(bs) |-> b], LAMBDA b : Selector(bs[b][1], d))

\* C16: every observed datum went to every registered reactor once, in
\* registration order; on each reactor the form of every matching binding
\* was invoked once and no other form, with its effect on the state made
\* once; and every reactor had finished with one datum before any received
\* the next.
C16_ExactlyOnce ==
    /\ InEmit => Len(slog) = Len(seen)
    /\ \A i \in 1..Len(slog) :
          \A rec \in {slog[i].did} :
              /\ Len(rec) = Len(occasions)
              /\ \A r \in 1..Len(rec) :
                    /\ rec[r].reactor = r
                    /\ rec[r].object = occasions[r][2]
                    /\ rec[r].calls = Matching(occ[rec[r].object]._bindings, seen[i])
                    /\ rec[r].after["count"] =
                          rec[r].before["count"] + CountingCalls(rec[r].object, rec[r].calls)
                    /\ i > 1 => rec[r].before = slog[i - 1].did[r].after
                    /\ i = Len(slog) => occ[rec[r].object].state = rec[r].after

C16_Witness ==
    /\ pc = "done"
    /\ Len(seen) >= 3
    /\ \E i \in 2..Len(slog) :
          \A rec \in {slog[i].did} :
              /\ Len(rec) = 2
              /\ rec[1].calls = <<2>>
              /\ Len(occ[rec[1].object]._bindings) = 2
              /\ rec[1].before["count"] > 0

\* The number of counting forms among the first m invocations of calls.
CountingAmong(o, calls, m) ==
    Cardinality({c \in 1..m : Counting(occ[o]._bindings[calls[c]][2])})

\* C17: the form of a later binding runs on the state as the forms of the
\* earlier bindings of the same reactor left it for the same datum: the count
\* a derive form puts in the datum it yields is the count at the start of
\* handle plus the invocations of counting forms up to and including its own.
C17_NoIsolation ==
    \A origins \in {AllOrigins} :
        \A l \in 1..Len(origins) :
            (origins[l].parent > 0
               /\ occ[origins[l].object]._bindings[origins[l].binding][2] = "derive") =>
                \A rec \in {slog[origins[l].parent].did[origins[l].reactor]} :
                    \E m \in 1..Len(rec.calls) :
                        /\ rec.calls[m] = origins[l].binding
                        /\ origins[l].raw.payload["n"] =
                              rec.before["count"] + CountingAmong(rec.object, rec.calls, m)

C17_Witness ==
    /\ pc = "done"
    /\ \E l \in 1..Len(seen) :
          /\ IsDerived(l)
          /\ Origin(l).binding = 2
          /\ occ[Origin(l).object]._bindings[2][2] = "derive"
          /\ slog[Origin(l).parent].did[Origin(l).reactor].calls = <<1, 2>>
          /\ Origin(l).raw.payload["n"] =
                slog[Origin(l).parent].did[Origin(l).reactor].before["count"] + 2

\* What the chain is given for the datum with history o: an initial datum as
\* the caller passed it, a derived datum with the ids threaded.
ChainInput(o) ==
    IF o.parent = 0
    THEN o.threaded = data[o.k]
    ELSE /\ o.threaded.causation_id = Some(o.current.id)
         /\ o.threaded.correlation_id \in {o.current.correlation_id, Some(o.current.id)}
         /\ o.threaded.id = o.raw.id

\* Every datum observed or queued is the output of the chain, each middleware
\* applied once in the order installed, and the datum a reactor was handed is
\* the observed one.
ChainOnce ==
    \A origins \in {AllOrigins} :
        \A i \in 1..Len(origins) :
            /\ ChainInput(origins[i])
            /\ AllData[i] = Composed(middlewares, origins[i].threaded)
            /\ origins[i].parent > 0 => origins[i].current = seen[origins[i].parent]

\* emit moves the head of the queue to the observed sequence as it is, and
\* leaves the rest of the queue as it is.
NotRewrittenAgain ==
    (pc = "loop" /\ pc' # "idle" /\ seen' # seen) =>
        /\ seen' = Append(seen, queue[1])
        /\ SubSeq(queue', 1, Len(queue) - 1) = Tail(queue)

\* C18: every datum a reactor observes, and every datum emit returns, is the
\* output of the whole middleware chain applied once to it, for a derived
\* datum after id threading and before it is queued; emit does not rewrite
\* the chain's output again.
C18_MiddlewareOnce == []ChainOnce /\ [][NotRewrittenAgain]_vars

C18_Witness ==
    /\ pc = "done"
    /\ middlewares = <<"tally", "reroute">>
    /\ \E i \in 1..Len(seen) :
          /\ IsDerived(i)
          /\ Origin(i).raw.causation_id = Some("forged")
          /\ seen[i].payload["tally"] = 1
          /\ seen[Origin(i).parent].payload["tally"] = 1
          /\ seen[i].correlation_id = Some("mw")

\* The fields of a datum that id threading is said to leave alone.
FieldsKept == {"name", "payload", "id", "created_at"}

\* C19, as stated: the datum emit builds from a yielded datum differs from it
\* in correlation_id and causation_id only.
C19_ThreadingChangesOnlyIds ==
    \A origins \in {AllOrigins} :
        \A i \in 1..Len(origins) :
            origins[i].parent > 0 =>
                \A f \in FieldsKept : origins[i].threaded[f] = origins[i].raw[f]

\* C19, amended: the datum emit builds from a yielded datum has the name, the
\* payload and the id of the yielded datum, correlation_id and causation_id
\* taken from the datum being processed, and a creation time that need not
\* be that of the yielded datum; with
\* no middleware the derived datum in the returned sequence has the name,
\* payload and id its form gave it.
C19_ThreadingKeepsNamePayloadId ==
    \A origins \in {AllOrigins} :
        \A i \in 1..Len(origins) :
            origins[i].parent > 0 =>
                /\ \A f \in FieldsKept \ {"created_at"} :
                      origins[i].threaded[f] = origins[i].raw[f]
                /\ origins[i].threaded.causation_id = Some(origins[i].current.id)
                /\ middlewares = <<>> =>
                      \A f \in FieldsKept \ {"created_at"} :
                          AllData[i][f] = origins[i].raw[f]

C19_Witness ==
    /\ pc = "done"
    /\ middlewares = <<>>
    /\ \E i \in 1..Len(seen) :
          /\ IsDerived(i)
          /\ Origin(i).raw.correlation_id = Some("forged")
          /\ seen[i].correlation_id = Some("c")
          /\ seen[i].id = Origin(i).raw.id
          /\ seen[i].payload = Origin(i).raw.payload
          /\ seen[i].created_at # Origin(i).raw.created_at

\* A registered occasion has a binding whose selector matches every datum and
\* whose form yields one new datum each time.
CycleRegistered ==
    \E j \in 1..Len(occasions) :
        \E b \in 1..Len(occ[occasions[j][2]]._bindings) :
            occ[occasions[j][2]]._bindings[b] = <<"always", "echo">>

\* With such a binding the loop test never finds the queue empty and emit does
\* not return; the loop goes on with the head of the queue whatever its depth
\* and whatever was observed before.
NeverQuiescent ==
    (CycleRegistered /\ InEmit) =>
        /\ pc = "loop"
        /\ QueueNonEmpty(queue)
        /\ ~ENABLED EmitReturn
        /\ Len(queue) >= Len(data)

\* Every iteration puts at least as many data on the queue as it takes off.
QueueNeverShrinks ==
    (CycleRegistered /\ pc = "loop" /\ pc' = "loop") => Len(queue') >= Len(queue)

\* C20: when the reactors form an infinite derivation cycle emit never
\* returns: the queue is never empty at the loop test, and no depth limit or
\* duplicate detection ends the run.
C20_NoCycleGuard == []NeverQuiescent /\ [][QueueNeverShrinks]_vars

C20_Witness ==
    /\ pc = "loop"
    /\ CycleRegistered
    /\ Len(seen) > MaxDepth
    /\ Hops(AllOrigins, Len(seen) + 1) > MaxDepth
    /\ \E i \in 1..Len(seen) : seen[i].name = queue[1].name /\ seen[i].payload = queue[1].payload

\* The (selector, form) pairs of the prehensions of phs whose subject is o, in
\* argument order.
PairsFor(phs, o) ==
    LET mine == SelectSeq(phs, LAMBDA ph : ph.subject = o)
    IN  [i \in 1..Len(mine) |-> <<mine[i].selector, mine[i].form>>]

\* What bind(*phs) makes of the occasions: each keeps its name and state, and
\* its binding list grows at the end by the pairs bound to it.
BindAppends ==
    \A phs \in BindArgs(DOMAIN occ) :
        \A after \in {BindAll(occ, phs, 1)} :
            /\ DOMAIN after = DOMAIN occ
            /\ \A o \in DOMAIN occ :
                  /\ after[o].name = occ[o].name
                  /\ after[o].state = occ[o].state
                  /\ after[o]._bindings = occ[o]._bindings \o PairsFor(phs, o)

\* An occasion that is not registered is handed nothing: its forms are never
\* invoked, its state stays as built and nothing is derived by it.
UnregisteredNeverFire ==
    \A o \in DOMAIN occ :
        Registered(occasions, occ[o].name) # {o} =>
            /\ invoked[o] = 0
            /\ occ[o].state = DictWith(<<>>, "count", 0)
            /\ \A l \in 1..Len(AllOrigins) : AllOrigins[l].object # o

\* A step that changes a binding list changes nothing else of the occasions
\* and of the nexus, and keeps the bindings that were there.
BindChangesBindingsOnly ==
    (\E o \in DOMAIN occ : occ'[o]._bindings # occ[o]._bindings) =>
        /\ occasions' = occasions
        /\ middlewares' = middlewares
        /\ BindingsOnlyAppended
        /\ \A o \in DOMAIN occ : occ'[o].state = occ[o].state /\ occ'[o].name = occ[o].name

\* C21: bind appends each prehension's (selector, form) to the end of its
\* subject's binding list, in argument order, and does nothing else: registry,
\* middleware list, states and existing bindings stay as they are; the subject
\* is not registered by it, so the bindings of an occasion never added do not
\* fire during emit.
C21_BindOnlyAppends ==
    /\ [](BindAppends /\ UnregisteredNeverFire)
    /\ [][BindChangesBindingsOnly]_vars

C21_Witness ==
    /\ pc = "done"
    /\ occasions = <<<<"A", "O1">>>>
    /\ occ["O1"]._bindings = <<<<"is_input", "pair">>>>
    /\ occ["O2"]._bindings = <<<<"not_final", "derive">>>>
    /\ invoked["O1"] > 0
    /\ invoked["O2"] = 0
    /\ Len(seen) = 3

\* The names of dict in order.
Names(dict) == [i \in 1..Len(dict) |-> dict[i][1]]

\* The names of the occasions objs that are not in dict, each once, in the
\* order in which they first come in objs.
NewNames(dict, objs) ==
    LET new == {k \in 1..Len(objs) :
                  /\ \A i \in 1..Len(dict) : dict[i][1] # occ[objs[k]].name
                  /\ \A l \in 1..(k - 1) : occ[objs[l]].name # occ[objs[k]].name}
    IN  [i \in 1..Cardinality(new) |->
           occ[objs[CHOOSE k \in new : Cardinality({l \in new : l <= k}) = i]].name]

\* What add(*objs) makes of the order of the registry: the names registered
\* before keep their positions, whether their occasion is replaced or not,
\* and the new names follow in the order in which they were first given.
AddKeepsPositions ==
    \A objs \in AddArgs(DOMAIN occ) :
        Names(AddAll(occasions, objs, 1)) = Names(occasions) \o NewNames(occasions, objs)

\* Every observed datum went to the occasions in the order of the registry,
\* and what they derived from it was queued in that order.
FanOutInRegistryOrder ==
    /\ \A i \in 1..Len(slog) :
          \A r \in 1..Len(slog[i].did) :
              /\ r <= Len(occasions)
              /\ slog[i].did[r].object = occasions[r][2]
    /\ \A origins \in {AllOrigins} :
          \A l \in 1..(Len(origins) - 1) :
              /\ origins[l].parent > 0 => origins[l].object = occasions[origins[l].reactor][2]
              /\ (origins[l].parent > 0 /\ origins[l].parent = origins[l + 1].parent)
                    => origins[l].reactor <= origins[l + 1].reactor

\* No step moves a registered name to another position.
NamesStayInPlace ==
    /\ Len(occasions') >= Len(occasions)
    /\ SubSeq(Names(occasions'), 1, Len(occasions)) = Names(occasions)

\* C22: a reactor registered under a name that is registered already takes
\* the position the name has had since it was first registered, and emit hands
\* every datum to the reactors in that order: after add(R1), add(R2), add(R1')
\* with R1' of R1's name, R1' comes before R2.
C22_ReplacementKeepsPosition ==
    /\ [](AddKeepsPositions /\ FanOutInRegistryOrder)
    /\ [][NamesStayInPlace]_vars

\* The invocations of the counting forms of object o during the current call.
RECURSIVE CallsInRun(_, _)
CallsInRun(i, o) ==
    IF i > Len(slog) THEN 0 ELSE Calls(slog[i].did, o) + CallsInRun(i + 1, o)

C22_Witness ==
    /\ pc = "done"
    /\ occasions = <<<<"A", "O3">>, <<"B", "O2">>>>
    /\ invoked["O1"] > 0
    /\ invoked["O2"] > CallsInRun(1, "O2")
    /\ CallsInRun(1, "O3") > 0
    /\ CallsInRun(1, "O2") > 0
    /\ \E l \in 1..(Len(seen) - 1) :
          /\ IsDerived(l)
          /\ Origin(l).parent = Origin(l + 1).parent
          /\ Origin(l).object = "O3"
          /\ Origin(l + 1).object = "O2"

\* The number of data handle yielded to emit for the datum observed at i.
RECURSIVE YieldedBy(_, _)
YieldedBy(rec, r) ==
    IF r > Len(rec) THEN 0 ELSE rec[r].yielded + YieldedBy(rec, r + 1)

RECURSIVE YieldedInRun(_)
YieldedInRun(i) ==
    IF i > Len(slog) THEN 0 ELSE YieldedBy(slog[i].did, 1) + YieldedInRun(i + 1)

\* Observed or still queued are exactly the initial data and the data the
\* forms yielded, each once; at return all of them have been observed.
Conserved ==
    InEmit =>
        /\ Len(qlog) = Len(queue)
        /\ Len(slog) = Len(seen)
        /\ Len(seen) + Len(queue) = Len(data) + YieldedInRun(1)
        /\ pc = "done" => Len(seen) = Len(data) + YieldedInRun(1)
        /\ \A i \in 1..Len(slog) :
              \A r \in 1..Len(slog[i].did) :
                  Cardinality({l \in 1..Len(AllOrigins) :
                                 AllOrigins[l].parent = i /\ AllOrigins[l].reactor = r})
                    = slog[i].did[r].yielded

\* One iteration takes the head off the queue, observes it, and puts what was
\* yielded at the tail: the data leave the queue in the order they entered it.
FirstInFirstOut ==
    (pc = "loop" /\ pc' = "loop" /\ seen' # seen) =>
        /\ Len(queue) > 0
        /\ seen' = Append(seen, queue[1])
        /\ Len(queue') >= Len(queue) - 1
        /\ SubSeq(queue', 1, Len(queue) - 1) = Tail(queue)
        /\ Len(queue') - (Len(queue) - 1) = YieldedBy(slog'[Len(slog')].did, 1)

\* C23: every datum that enters the queue, initial or yielded by a form,
\* leaves it and is observed once, in the order of entry; at return the
\* observed sequence has as many data as there were initial data and data
\* yielded; none is dropped, deduplicated or observed twice.
C23_Conservation == []Conserved /\ [][FirstInFirstOut]_vars

C23_Witness ==
    /\ pc = "done"
    /\ Len(data) = 2
    /\ YieldedInRun(1) >= 4
    /\ \E i \in 1..Len(seen), j \in 1..Len(seen) :
          /\ i < j
          /\ seen[i].id = seen[j].id
          /\ IsDerived(i)
          /\ Origin(i).parent = Origin(j).parent

\* The initial datum a datum descends from: itself if it is initial.
RECURSIVE RootOf(_)
RootOf(i) == IF AllOrigins[i].parent = 0 THEN i ELSE RootOf(AllOrigins[i].parent)

\* An initial datum is queued and observed with the three ids the middleware
\* chain returned for it; without middlewares it is the caller's datum.
InitialIdsKept ==
    InEmit =>
        \A origins \in {AllOrigins} :
            \A i \in 1..Len(AllData) :
                origins[i].parent = 0 =>
                    LET arg == data[origins[i].k]
                        out == Composed(middlewares, arg)
                    IN  /\ AllData[i].id = out.id
                        /\ AllData[i].correlation_id = out.correlation_id
                        /\ AllData[i].causation_id = out.causation_id
                        /\ middlewares = <<>> =>
                              /\ AllData[i] = arg
                              /\ arg.correlation_id = None => AllData[i].correlation_id = None

\* Without middlewares, the descendants of an initial datum built without a
\* correlation id carry the id of that datum as correlation id.
DescendantsCarryRootId ==
    (InEmit /\ middlewares = <<>>) =>
        \A i \in 1..Len(AllData) :
            (AllOrigins[i].parent > 0 /\ data[AllOrigins[RootOf(i)].k].correlation_id = None) =>
                /\ AllData[i].correlation_id = Some(AllData[RootOf(i)].id)
                /\ AllData[RootOf(i)].correlation_id = None

\* A datum keeps its three ids from the queue to the observed sequence.
IdsKeptWhenObserved ==
    (pc = "loop" /\ pc' = "loop" /\ seen' # seen) =>
        /\ seen'[Len(seen')].id = queue[1].id
        /\ seen'[Len(seen')].correlation_id = queue[1].correlation_id
        /\ seen'[Len(seen')].causation_id = queue[1].causation_id

\* C24: emit assigns no id to an initial datum: it is observed with the id,
\* correlation_id and causation_id the middlewares returned for it; without
\* middlewares it is the datum the caller passed, so one built without a
\* correlation id keeps None while its descendants carry its id.
C24_InitialIdsUntouched ==
    [](InitialIdsKept /\ DescendantsCarryRootId) /\ [][IdsKeptWhenObserved]_vars

C24_Witness ==
    /\ pc = "done"
    /\ middlewares = <<>>
    /\ Len(seen) >= 3
    /\ data[1].correlation_id = None
    /\ seen[1] = data[1]
    /\ seen[1].correlation_id = None
    /\ seen[1].causation_id = None
    /\ \E i \in 2..Len(seen) :
          /\ IsDerived(i)
          /\ RootOf(i) = 1
          /\ Origin(i).depth = 2
          /\ seen[i].correlation_id = Some(seen[1].id)

====
